---- MODULE Spec2Model ----
(***************************************************************************)
(* A model of the paste-image-rename-convert plugin: its settings, the     *)
(* rename process started by a file-creation event, the rename dialog,     *)
(* and the pure name helpers (sanitizer, parseFileName, isNameMeaningful,  *)
(* deduplicateNewName).                                                    *)
(*                                                                         *)
(* Strings are sequences of one-character strings, so that slicing,        *)
(* concatenation, regular-expression matching and case folding are         *)
(* computed character by character, as the code computes them.             *)
(* A JavaScript number is modelled by the decimal digits of the integer    *)
(* it holds (a sequence over 0..9 without leading zeros), rounded to the   *)
(* nearest IEEE-754 double wherever the code produces a number.            *)
(***************************************************************************)
EXTENDS Integers, Sequences, FiniteSets, TLC

VARIABLES
    settings,   \* plugin.settings
    data,       \* what saveData stored last, read back by loadData
    call,       \* the handler or function invoked last, with its arguments
    ret,        \* what the function under check returned
    vault,      \* the attachment directory: file name -> format of the content
    created,    \* the names the host has announced as created
    ops,        \* the rename operations started, in order
    modals,     \* plugin.modals: the operations whose dialog is listed
    notices     \* the notices shown: <<operation, kind>>

proc == <<vault, created, ops, modals, notices>>

vars == <<settings, data, call, ret, vault, created, ops, modals, notices>>

----------------------------------------------------------------------------
(* Characters and strings *)

LowerChars == <<"a","b","c","d","e","f","g","h","i","j","k","l","m",
                "n","o","p","q","r","s","t","u","v","w","x","y","z">>

UpperChars == <<"A","B","C","D","E","F","G","H","I","J","K","L","M",
                "N","O","P","Q","R","S","T","U","V","W","X","Y","Z">>

DigitChars == <<"0","1","2","3","4","5","6","7","8","9">>

Range(s) == { s[i] : i \in DOMAIN s }

IsDigit(c) == c \in Range(DigitChars)

IsLetter(c) == c \in Range(LowerChars) \cup Range(UpperChars)

\* \s of a JavaScript regular expression, and what String.prototype.trim strips
IsWhitespace(c) == c \in {" ", "\t", "\n", "\r"}

\* String.prototype.toLowerCase, one character
LowerOf(c) ==
    IF c \in Range(UpperChars)
    THEN LowerChars[CHOOSE i \in DOMAIN UpperChars : UpperChars[i] = c]
    ELSE c

toLowerCase(s) == [i \in DOMAIN s |-> LowerOf(s[i])]

\* String.prototype.slice(from) and slice(0, to), 1-based positions
SliceFrom(s, from) == SubSeq(s, from, Len(s))

SliceTo(s, to) == SubSeq(s, 1, to)

\* String.prototype.lastIndexOf(c) + 1: the last position of c in s, 0 if none
LastIndexOf(s, c) ==
    LET hits == { i \in DOMAIN s : s[i] = c }
    IN  IF hits = {} THEN 0 ELSE CHOOSE i \in hits : \A j \in hits : j <= i

StartsWith(s, p) == Len(s) >= Len(p) /\ SubSeq(s, 1, Len(p)) = p

EndsWith(s, p) == Len(s) >= Len(p) /\ SubSeq(s, Len(s) - Len(p) + 1, Len(s)) = p

\* String.prototype.trim
RECURSIVE TrimStart(_)
TrimStart(s) ==
    IF s # <<>> /\ IsWhitespace(Head(s)) THEN TrimStart(Tail(s)) ELSE s

RECURSIVE TrimEnd(_)
TrimEnd(s) ==
    IF s # <<>> /\ IsWhitespace(s[Len(s)])
    THEN TrimEnd(SubSeq(s, 1, Len(s) - 1))
    ELSE s

Trim(s) == TrimEnd(TrimStart(s))

----------------------------------------------------------------------------
(* utils.ts: path and sanitizer *)

\* path.basename: the part after the last '/'
basename(fullpath) == SliceFrom(fullpath, LastIndexOf(fullpath, "/") + 1)

\* path.join(dir, name) for one directory and one name
pathJoin(dir, name) == IF dir = <<>> THEN name ELSE dir \o <<"/">> \o name

\* U+0060, the grave accent, which a string of this module cannot hold
GraveAccent == "U+0060"

\* The punctuation filenameNotAllowedChars lets through, besides letters and digits
AllowedPunct ==
    {"~", GraveAccent, "!", "@", "$", "&", "*", "(", ")", "-", "_", "=", "+",
     "{", "}", ";", "'", "\"", ",", "<", ".", ">", "?", " "}

FilenameAllowed(c) == IsLetter(c) \/ IsDigit(c) \/ c \in AllowedPunct

\* sanitizer.filename: strip the characters that are not allowed, then trim
sanitizerFilename(s) == Trim(SelectSeq(s, FilenameAllowed))

\* A variant that forgets the default
sanitizerDelimiterNoDefault(s) == sanitizerFilename(s)

\* sanitizer.delimiter: '-' when nothing valid is left
sanitizerDelimiter(s) ==
    LET t == sanitizerFilename(s)
    IN  IF t = <<>> THEN <<"-">> ELSE t

----------------------------------------------------------------------------
(* parseFileName *)

parseFileName(fileName) ==
    LET lastDot == LastIndexOf(fileName, ".")
    IN  IF fileName = <<>> THEN [stem |-> <<>>, extension |-> <<>>]
        ELSE IF lastDot = 0 THEN [stem |-> fileName, extension |-> <<>>]
        ELSE IF lastDot = 1
             THEN [stem |-> <<>>,
                   extension |-> toLowerCase(SliceFrom(fileName, 2))]
        ELSE [stem |-> SliceTo(fileName, lastDot - 1),
              extension |-> toLowerCase(SliceFrom(fileName, lastDot + 1))]

\* TFile: the host's view of a file, its name and the extension after the last dot
TFile(dir, name) ==
    LET lastDot == LastIndexOf(name, ".")
    IN  [name |-> name,
         extension |-> IF lastDot = 0 THEN <<>> ELSE SliceFrom(name, lastDot + 1),
         parent |-> dir]

----------------------------------------------------------------------------
(* JavaScript numbers.  parseInt, Math.max and + work on IEEE-754 doubles:  *)
(* every integer up to 2^53 is a double, and between 2^53 and 2^54 only the *)
(* even ones are.  A number is held as its decimal digits, most significant *)
(* first, without leading zeros; the digit strings of the model are below   *)
(* 2^54, where Number-to-string prints the integer exactly.                 *)

DigitVal(c) == (CHOOSE i \in DOMAIN DigitChars : DigitChars[i] = c) - 1

RECURSIVE StripZeros(_)
StripZeros(d) ==
    IF Len(d) > 1 /\ Head(d) = 0 THEN StripZeros(Tail(d)) ELSE d

\* d + 1 on decimal digits
RECURSIVE BigInc(_)
BigInc(d) ==
    IF d = <<>> THEN <<1>>
    ELSE IF d[Len(d)] < 9
         THEN SubSeq(d, 1, Len(d) - 1) \o <<d[Len(d)] + 1>>
         ELSE BigInc(SubSeq(d, 1, Len(d) - 1)) \o <<0>>

\* d - 1 on decimal digits, for d >= 1
RECURSIVE BigDecRaw(_)
BigDecRaw(d) ==
    IF d[Len(d)] > 0
    THEN SubSeq(d, 1, Len(d) - 1) \o <<d[Len(d)] - 1>>
    ELSE BigDecRaw(SubSeq(d, 1, Len(d) - 1)) \o <<9>>

BigDec(d) == StripZeros(BigDecRaw(d))

\* a < b on canonical decimal digits
RECURSIVE LexLess(_, _)
LexLess(a, b) ==
    IF a = <<>> THEN FALSE
    ELSE IF Head(a) # Head(b) THEN Head(a) < Head(b)
    ELSE LexLess(Tail(a), Tail(b))

BigLess(a, b) ==
    IF Len(a) # Len(b) THEN Len(a) < Len(b) ELSE LexLess(a, b)

BigMod4(d) ==
    IF Len(d) = 1 THEN d[1] % 4
    ELSE (10 * d[Len(d) - 1] + d[Len(d)]) % 4

\* 2^53 = 9007199254740992: Number.MAX_SAFE_INTEGER + 1
TwoPow53 == <<9,0,0,7,1,9,9,2,5,4,7,4,0,9,9,2>>

\* Whether the integer d is within the safe integer range, d <= 2^53 - 1
IsSafeInteger(d) == BigLess(d, TwoPow53)

\* The double nearest to the integer d (ties to the even significand), d <= 2^54
ToDouble(d) ==
    IF ~BigLess(TwoPow53, d) THEN d
    ELSE CASE BigMod4(d) = 0 -> d
           [] BigMod4(d) = 1 -> BigDec(d)
           [] BigMod4(d) = 2 -> d
           [] BigMod4(d) = 3 -> BigInc(d)

\* parseInt(s, 10) of a string of decimal digits
parseInt(s) == ToDouble(StripZeros([i \in DOMAIN s |-> DigitVal(s[i])]))

\* n + 1 on doubles
NumberPlusOne(n) == ToDouble(BigInc(n))

\* Math.max(...nums) of a non-empty array
RECURSIVE MathMax(_)
MathMax(nums) ==
    IF Len(nums) = 1 THEN nums[1]
    ELSE LET m == MathMax(Tail(nums))
         IN  IF BigLess(Head(nums), m) THEN m ELSE Head(nums)

\* `${n}`: the decimal digits of an integer-valued double below 10^21
NumberToString(n) == [i \in DOMAIN n |-> DigitChars[n[i] + 1]]

----------------------------------------------------------------------------
(* deduplicateNewName *)

\* escapeRegExp makes the stem and the delimiter match literally; the extension
\* goes into the pattern as it is, which is literal too for the letters and
\* digits the extensions of the model are made of.
\* dupNameRegex.exec(siblingName): the digits captured by (\d+), <<>> for no match
dupNameRegexExec(siblingName, atStart, delimiter, stem, ext) ==
    LET tail == <<".">> \o ext
        lit  == IF atStart THEN delimiter \o stem \o tail ELSE stem \o delimiter
        n    == Len(siblingName)
        digits ==
            IF atStart
            THEN SubSeq(siblingName, 1, n - Len(lit))
            ELSE SubSeq(siblingName, Len(lit) + 1, n - Len(tail))
        fits ==
            IF atStart
            THEN n > Len(lit) /\ EndsWith(siblingName, lit)
            ELSE n > Len(lit) + Len(tail)
                 /\ StartsWith(siblingName, lit) /\ EndsWith(siblingName, tail)
    IN  IF fits /\ \A i \in DOMAIN digits : IsDigit(digits[i])
        THEN digits
        ELSE <<>>

\* A variant of the sibling loop that compares the file with itself
RECURSIVE scanSiblingsNoSelfSkip(_, _, _, _, _, _, _)
scanSiblingsNoSelfSkip(files, fileName, exactFileName, atStart, delimiter, stem, ext) ==
    IF files = <<>> THEN [isNewNameExist |-> FALSE, dupNameNumbers |-> <<>>]
    ELSE LET rest == scanSiblingsNoSelfSkip(Tail(files), fileName, exactFileName,
                                            atStart, delimiter, stem, ext)
             siblingName == basename(Head(files))
             match == dupNameRegexExec(siblingName, atStart, delimiter, stem, ext)
         IN  IF siblingName = exactFileName
             THEN [rest EXCEPT !.isNewNameExist = TRUE]
             ELSE IF match # <<>>
             THEN [rest EXCEPT !.dupNameNumbers = <<parseInt(match)>> \o @]
             ELSE rest

\* The loop over listed.files: whether the exact name exists, and the numbers of
\* the numbered siblings, the file itself skipped
RECURSIVE scanSiblings(_, _, _, _, _, _, _)
scanSiblings(files, fileName, exactFileName, atStart, delimiter, stem, ext) ==
    IF files = <<>> THEN [isNewNameExist |-> FALSE, dupNameNumbers |-> <<>>]
    ELSE LET rest == scanSiblings(Tail(files), fileName, exactFileName,
                                  atStart, delimiter, stem, ext)
             siblingName == basename(Head(files))
             match == dupNameRegexExec(siblingName, atStart, delimiter, stem, ext)
         IN  IF fileName = siblingName THEN rest
             ELSE IF siblingName = exactFileName
             THEN [rest EXCEPT !.isNewNameExist = TRUE]
             ELSE IF match # <<>>
             THEN [rest EXCEPT !.dupNameNumbers = <<parseInt(match)>> \o @]
             ELSE rest

\* A variant that numbers every name
needsNumberAlways(isNewNameExist, dupNumberAlways) == TRUE

\* isNewNameExist || this.settings.dupNumberAlways
needsNumber(isNewNameExist, dupNumberAlways) == isNewNameExist \/ dupNumberAlways

\* dupNameNumbers.length > 0 ? Math.max(...dupNameNumbers) + 1 : 1
newNumberOf(dupNameNumbers) ==
    IF Len(dupNameNumbers) > 0 THEN NumberPlusOne(MathMax(dupNameNumbers)) ELSE <<1>>

\* deduplicateNewName(newName, file), listed being what adapter.list(dir) returned
deduplicateNewName(newName, file, listed, st) ==
    LET parsed == parseFileName(newName)
        newNameStem == parsed.stem
        actualExtension ==
            IF parsed.extension # <<>> THEN parsed.extension ELSE file.extension
        delimiter == st.dupNumberDelimiter
        exactFileName == newNameStem \o <<".">> \o actualExtension
        scan == scanSiblings(listed, file.name, exactFileName, st.dupNumberAtStart,
                             delimiter, newNameStem, actualExtension)
        newNumber == NumberToString(newNumberOf(scan.dupNameNumbers))
        finalName ==
            IF needsNumber(scan.isNewNameExist, st.dupNumberAlways)
            THEN IF st.dupNumberAtStart
                 THEN newNumber \o delimiter \o newNameStem \o <<".">> \o actualExtension
                 ELSE newNameStem \o delimiter \o newNumber \o <<".">> \o actualExtension
            ELSE exactFileName
    IN  [name |-> finalName, stem |-> newNameStem, extension |-> actualExtension]

----------------------------------------------------------------------------
(* isNameMeaningful *)

\* The printable ASCII characters in code order, from U+0020
AsciiChars ==
    <<" ","!","\"","#","$","%","&","'","(",")","*","+",",","-",".","/",
      "0","1","2","3","4","5","6","7","8","9",":",";","<","=",">","?","@",
      "A","B","C","D","E","F","G","H","I","J","K","L","M",
      "N","O","P","Q","R","S","T","U","V","W","X","Y","Z",
      "[","\\","]","^","_",GraveAccent,
      "a","b","c","d","e","f","g","h","i","j","k","l","m",
      "n","o","p","q","r","s","t","u","v","w","x","y","z",
      "{","|","}","~">>

\* The code unit of a printable ASCII character
CharCode(c) == 31 + CHOOSE i \in DOMAIN AsciiChars : AsciiChars[i] = c

\* The class escape \s as one atom of a character class
ClassEscapeS == "\\s"

\* The ClassRanges of new RegExp(`[${delimiter}\\s]`), the delimiter put in as it
\* is: an atom followed by '-' and another atom is a range, which is a syntax
\* error when out of order, and the union of both atoms and '-' when one of them
\* is a class escape (the pattern has no u flag).  atoms: the characters of the
\* delimiter, none of which is '\', '[', ']' or '^' after sanitizer.delimiter,
\* then \s.
RECURSIVE ClassRanges(_)
ClassRanges(atoms) ==
    IF atoms = <<>> THEN [error |-> FALSE, ranges |-> {}]
    ELSE IF Len(atoms) >= 3 /\ atoms[2] = "-"
    THEN LET rest == ClassRanges(SubSeq(atoms, 4, Len(atoms)))
         IN  IF ClassEscapeS \in {atoms[1], atoms[3]}
             THEN [rest EXCEPT !.ranges =
                      @ \cup { <<CharCode(a), CharCode(a)>> :
                               a \in {atoms[1], "-", atoms[3]} \ {ClassEscapeS} }]
             ELSE IF CharCode(atoms[1]) > CharCode(atoms[3])
             THEN [rest EXCEPT !.error = TRUE]
             ELSE [rest EXCEPT !.ranges =
                      @ \cup {<<CharCode(atoms[1]), CharCode(atoms[3])>>}]
    ELSE LET rest == ClassRanges(Tail(atoms))
         IN  IF Head(atoms) = ClassEscapeS THEN rest
             ELSE [rest EXCEPT !.ranges =
                      @ \cup {<<CharCode(Head(atoms)), CharCode(Head(atoms))>>}]

\* Whether one character matches the class [...\s]
ClassMatches(c, ranges) ==
    \/ IsWhitespace(c)
    \/ /\ c \in Range(AsciiChars)
       /\ \E r \in ranges : r[1] <= CharCode(c) /\ CharCode(c) <= r[2]

\* isNameMeaningful(name, delimiter): threw when the RegExp constructor throws
\* a SyntaxError, value otherwise
isNameMeaningful(name, delimiter) ==
    LET class == ClassRanges(delimiter \o <<ClassEscapeS>>)
        Kept(c) == ~ClassMatches(c, class.ranges)
    IN  IF class.error
        THEN [threw |-> TRUE, value |-> FALSE]
        ELSE [threw |-> FALSE, value |-> SelectSeq(name, Kept) # <<>>]

----------------------------------------------------------------------------
(* Settings *)

DEFAULT_SETTINGS ==
    [imageNamePattern |-> "{{fileName}}",
     dupNumberAtStart |-> FALSE,
     dupNumberDelimiter |-> <<"-">>,
     dupNumberAlways |-> FALSE,
     autoRename |-> FALSE,
     handleAllAttachments |-> FALSE,
     excludeExtensionPattern |-> <<>>,
     disableRenameNotice |-> FALSE,
     pngToJpeg |-> FALSE,
     pngToWebp |-> FALSE,
     quality |-> "0.8"]

NoData == [none |-> TRUE]

\* Object.assign({}, DEFAULT_SETTINGS, await this.loadData())
loadSettingsFrom(stored) == IF stored = NoData THEN DEFAULT_SETTINGS ELSE stored.saved

NoCall == [op |-> "none"]

NoRet == [done |-> FALSE]

\* No file, no operation, no dialog, no notice
ProcIdle ==
    /\ vault = {}
    /\ created = {}
    /\ ops = <<>>
    /\ modals = <<>>
    /\ notices = {}

----------------------------------------------------------------------------
(* The names and the directory listings deduplicateNewName is applied to *)

MaxListing == 4

Dir == <<"d">>

StemFoo == <<"f","o","o">>

DotPng == <<".","p","n","g">>

PastedImagePng ==
    <<"P","a","s","t","e","d"," ","i","m","a","g","e"," ","1">> \o DotPng

Digits2Pow53 ==
    <<"9","0","0","7","1","9","9","2","5","4","7","4","0","9","9","2">>

FooPng == StemFoo \o DotPng

FooUpperPng == StemFoo \o <<".","P","N","G">>

\* The names a directory of the model may hold, in listing order
NameUniverse ==
    << PastedImagePng,
       FooPng,
       StemFoo \o <<"-","1">> \o DotPng,
       StemFoo \o <<"-","0","2">> \o DotPng,
       StemFoo \o <<"-","3">> \o DotPng,
       StemFoo \o <<"-">> \o Digits2Pow53 \o DotPng,
       StemFoo \o <<"_","1">> \o DotPng,
       StemFoo \o <<"-","1","a">> \o DotPng,
       StemFoo \o <<"-","4">> \o <<".","j","p","e","g">>,
       <<"2","-">> \o FooPng,
       <<"1","_">> \o FooPng >>

RenamedFiles == { PastedImagePng, FooPng, StemFoo \o <<"-","1">> \o DotPng }

CandidateNames == { FooPng, FooUpperPng }

PolicyDelimiters == { <<"-">>, <<"_">> }

\* The entries of NameUniverse at the positions idx, in order, as paths of Dir
RECURSIVE ListingOf(_)
ListingOf(idx) ==
    IF idx = {} THEN <<>>
    ELSE LET i == CHOOSE j \in idx : \A k \in idx : j <= k
         IN  <<pathJoin(Dir, NameUniverse[i])>> \o ListingOf(idx \ {i})

Listings(fileName) ==
    { ListingOf(idx) : idx \in
        { x \in SUBSET DOMAIN NameUniverse :
            /\ Cardinality(x) <= MaxListing
            /\ \E i \in x : NameUniverse[i] = fileName } }

InitDedup ==
    /\ settings \in
         { [DEFAULT_SETTINGS EXCEPT !.dupNumberAtStart = s,
                                    !.dupNumberAlways = a,
                                    !.dupNumberDelimiter = d] :
             s \in BOOLEAN, a \in BOOLEAN, d \in PolicyDelimiters }
    /\ data = NoData
    /\ \E fileName \in RenamedFiles :
         call \in { [op |-> "deduplicateNewName", newName |-> n,
                     file |-> TFile(Dir, fileName), listed |-> l] :
                    n \in CandidateNames, l \in Listings(fileName) }
    /\ ret = NoRet
    /\ ProcIdle

ApplyDedup ==
    /\ call.op = "deduplicateNewName"
    /\ ~ret.done
    /\ ret' = [done |-> TRUE,
               value |-> deduplicateNewName(call.newName, call.file, call.listed,
                                            settings)]
    /\ UNCHANGED <<settings, data, call>>
    /\ UNCHANGED proc

NextDedup == ApplyDedup

SpecDedup == InitDedup /\ [][NextDedup]_vars

----------------------------------------------------------------------------
(* What the claims about deduplicateNewName speak of, stated on the call and *)
(* its result                                                                *)

\* The names in the listing other than that of the file being renamed
DedupSiblings ==
    { basename(call.listed[i]) : i \in DOMAIN call.listed } \ { call.file.name }

TargetStem == parseFileName(call.newName).stem

TargetExt == parseFileName(call.newName).extension

\* stem.ext
TargetName == TargetStem \o <<".">> \o TargetExt

\* The target name with the digits ds at the configured position
NumberedName(ds) ==
    IF settings.dupNumberAtStart
    THEN ds \o settings.dupNumberDelimiter \o TargetName
    ELSE TargetStem \o settings.dupNumberDelimiter \o ds \o <<".">> \o TargetExt

\* The digit strings ds for which name is the numbered form of the target name
NumbersIn(name) ==
    { ds \in { SubSeq(name, i, j) : i \in DOMAIN name, j \in DOMAIN name } :
        /\ ds # <<>>
        /\ \A k \in DOMAIN ds : IsDigit(ds[k])
        /\ NumberedName(ds) = name }

\* The integer a digit string denotes
IntegerOf(ds) == StripZeros([i \in DOMAIN ds |-> DigitVal(ds[i])])

\* The integers of the numbered siblings
SiblingNumbers ==
    { IntegerOf(ds) : ds \in UNION { NumbersIn(s) : s \in DedupSiblings } }

BigMaxOf(S) == CHOOSE m \in S : \A x \in S : ~BigLess(m, x)

NextAfter(S) == IF S = {} THEN <<1>> ELSE BigInc(BigMaxOf(S))

\* C1: the returned name is never the name of a sibling (the file itself
\* apart), unless always-numbering meets a sibling that is not of the numbered
\* form (a non-numeric suffix).
C1_NeverASiblingName ==
    ret.done =>
        \A s \in DedupSiblings :
            ret.value.name = s =>
                /\ settings.dupNumberAlways
                /\ NumbersIn(s) = {}
                /\ s # TargetName

\* C2: an inserted number is one more than the largest number of the numbered
\* siblings, or 1 when there is none.
C2_OneMoreThanMax ==
    (ret.done /\ ret.value.name # TargetName) =>
        { IntegerOf(ds) : ds \in NumbersIn(ret.value.name) }
            = { NextAfter(SiblingNumbers) }

\* C2, its example: siblings foo.png, foo-1.png, foo-3.png and the candidate
\* foo.png give foo-4.png.
C2_GapExample ==
    /\ ret.done
    /\ call.newName = FooPng
    /\ settings.dupNumberDelimiter = <<"-">>
    /\ ~settings.dupNumberAtStart
    /\ DedupSiblings = { FooPng, StemFoo \o <<"-","1">> \o DotPng,
                         StemFoo \o <<"-","3">> \o DotPng }
    /\ ret.value.name = StemFoo \o <<"-","4">> \o DotPng

\* C3: the target name comes back unchanged exactly when always-numbering is
\* off and no sibling bears it; any other result is the target name with a
\* number at the configured position, set off by the delimiter.
C3_UnchangedIffFree ==
    ret.done =>
        /\ (ret.value.name = TargetName)
             <=> (~settings.dupNumberAlways /\ TargetName \notin DedupSiblings)
        /\ ret.value.name # TargetName => NumbersIn(ret.value.name) # {}

C3_Witness ==
    /\ ret.done
    /\ ~settings.dupNumberAlways
    /\ TargetName \in DedupSiblings
    /\ call.file.name # TargetName
    /\ NumbersIn(ret.value.name) # {}

\* The directory and the policy of the example of C4, always-numbering left open
PrefixExample ==
    /\ ret.done
    /\ call.newName = FooPng
    /\ settings.dupNumberAtStart
    /\ settings.dupNumberDelimiter = <<"-">>
    /\ DedupSiblings = { <<"2","-">> \o FooPng }

\* C4, as claimed: prefix policy, delimiter '-', the defaults otherwise, the
\* only sibling 2-foo.png: the candidate foo.png resolves to 3-foo.png.
C4_PrefixGivesThree ==
    (PrefixExample /\ settings.dupNumberAlways = DEFAULT_SETTINGS.dupNumberAlways)
        => ret.value.name = <<"3","-">> \o FooPng

\* C4, amended: in that directory foo.png resolves to foo.png with
\* always-numbering off, the default, and to 3-foo.png with it on.
C4_PrefixUnchangedUnlessAlways ==
    PrefixExample =>
        ret.value.name =
            IF settings.dupNumberAlways THEN <<"3","-">> \o FooPng ELSE FooPng

C4_Witness ==
    /\ PrefixExample
    /\ ~settings.dupNumberAlways
    /\ call.file.name = PastedImagePng
    /\ ret.value.name = FooPng

\* C5: a sibling whose digits overflow the integer range does not count: the
\* inserted number is one more than the largest valid sibling number (read as
\* the safe integers, or as every integer), or 1.
C5_OverflowIgnored ==
    (ret.done /\ ret.value.name # TargetName) =>
        \E n \in { NextAfter({ x \in SiblingNumbers : IsSafeInteger(x) }),
                   NextAfter(SiblingNumbers) } :
            { IntegerOf(ds) : ds \in NumbersIn(ret.value.name) } = { n }

----------------------------------------------------------------------------
(* isNameMeaningful applied to stems, under the delimiters the settings tab *)
(* can store                                                                *)

MaxStemLen == 3

MaxDelimiterInput == 3

SeqsUpTo(alphabet, n) == UNION { [1..k -> alphabet] : k \in 0..n }

StemAlphabet == {"a", "b", "-", " "}

DelimiterAlphabet == {"-", "a", "c", " ", "/"}

InitMeaningful ==
    /\ settings \in
         { [DEFAULT_SETTINGS EXCEPT !.dupNumberDelimiter = sanitizerDelimiter(v)] :
             v \in SeqsUpTo(DelimiterAlphabet, MaxDelimiterInput) }
    /\ data = NoData
    /\ call \in { [op |-> "isNameMeaningful", name |-> n] :
                  n \in SeqsUpTo(StemAlphabet, MaxStemLen) }
    /\ ret = NoRet
    /\ ProcIdle

ApplyMeaningful ==
    /\ call.op = "isNameMeaningful"
    /\ ~ret.done
    /\ ret' = [done |-> TRUE,
               value |-> isNameMeaningful(call.name, settings.dupNumberDelimiter)]
    /\ UNCHANGED <<settings, data, call>>
    /\ UNCHANGED proc

NextMeaningful == ApplyMeaningful

SpecMeaningful == InitMeaningful /\ [][NextMeaningful]_vars

\* Whether name is made of occurrences of the delimiter and of whitespace only
RECURSIVE OnlyDelimiterAndWhitespace(_, _)
OnlyDelimiterAndWhitespace(name, delimiter) ==
    \/ name = <<>>
    \/ /\ name # <<>>
       /\ IsWhitespace(Head(name))
       /\ OnlyDelimiterAndWhitespace(Tail(name), delimiter)
    \/ /\ StartsWith(name, delimiter)
       /\ OnlyDelimiterAndWhitespace(SliceFrom(name, Len(delimiter) + 1), delimiter)

\* Whether name holds a character that is neither whitespace nor a character
\* of the delimiter
HasOtherCharacter(name, delimiter) ==
    \E i \in DOMAIN name :
        ~IsWhitespace(name[i]) /\ name[i] \notin Range(delimiter)

\* C7: isNameMeaningful returns false for a stem made of occurrences of the
\* delimiter and whitespace only, and true for any other non-empty stem,
\* whatever the delimiter; "other" is read in the claim's favour, as a stem
\* with a character that is neither whitespace nor part of the delimiter.
C7_MeaningfulIffOtherContent ==
    ret.done =>
        /\ ~ret.value.threw
        /\ OnlyDelimiterAndWhitespace(call.name, settings.dupNumberDelimiter)
             => ~ret.value.value
        /\ HasOtherCharacter(call.name, settings.dupNumberDelimiter)
             => ret.value.value

----------------------------------------------------------------------------
(* The settings tab: one action per onChange handler, each ending with      *)
(* saveSettings, and loadSettings on the next load of the plugin            *)

\* What the user types into 'Duplicate number delimiter'
DelimiterEdits ==
    { <<>>, <<" ">>, <<"/">>, <<"/", " ">>, <<"-">>, <<"_">>,
      <<" ", "_", " ">>, <<"a", "-", "c">> }

PatternEdits == {"{{fileName}}", "{{imageNameKey}}-{{DATE:YYYYMMDD}}"}

ExcludeEdits == { <<>>, <<"p","d","f","x","?","|","z","i","p">> }

QualityEdits == {"0.8", "1.0"}

\* this.saveData(this.settings)
saveSettings(st) == [saved |-> st]

\* A variant of the JPEG toggle that leaves the WebP flag alone
onChangePngToJpegKeepsWebp(st, value) == [st EXCEPT !.pngToJpeg = value]

\* onChange of 'Convert PNG to JPEG'
onChangePngToJpeg(st, value) ==
    IF value
    THEN [st EXCEPT !.pngToJpeg = value, !.pngToWebp = FALSE]
    ELSE [st EXCEPT !.pngToJpeg = value]

\* onChange of 'Convert PNG to WebP'
onChangePngToWebp(st, value) ==
    IF value
    THEN [st EXCEPT !.pngToWebp = value, !.pngToJpeg = FALSE]
    ELSE [st EXCEPT !.pngToWebp = value]

\* onChange of 'Duplicate number delimiter'
onChangeDupNumberDelimiter(st, value) ==
    [st EXCEPT !.dupNumberDelimiter = sanitizerDelimiter(value)]

\* A handler: the settings become next and are saved
Edit(op, value, next) ==
    /\ settings' = next
    /\ data' = saveSettings(next)
    /\ call' = [op |-> op, value |-> value, before |-> settings]
    /\ UNCHANGED ret
    /\ UNCHANGED proc

SetImageNamePattern ==
    \E v \in PatternEdits :
        Edit("imageNamePattern", v, [settings EXCEPT !.imageNamePattern = v])

SetDupNumberAtStart ==
    \E v \in BOOLEAN :
        Edit("dupNumberAtStart", v, [settings EXCEPT !.dupNumberAtStart = v])

SetDupNumberDelimiter ==
    \E v \in DelimiterEdits :
        Edit("dupNumberDelimiter", v, onChangeDupNumberDelimiter(settings, v))

SetDupNumberAlways ==
    \E v \in BOOLEAN :
        Edit("dupNumberAlways", v, [settings EXCEPT !.dupNumberAlways = v])

SetAutoRename ==
    \E v \in BOOLEAN :
        Edit("autoRename", v, [settings EXCEPT !.autoRename = v])

SetHandleAllAttachments ==
    \E v \in BOOLEAN :
        Edit("handleAllAttachments", v,
             [settings EXCEPT !.handleAllAttachments = v])

SetExcludeExtensionPattern ==
    \E v \in ExcludeEdits :
        Edit("excludeExtensionPattern", v,
             [settings EXCEPT !.excludeExtensionPattern = v])

SetPngToJpeg ==
    \E v \in BOOLEAN : Edit("pngToJpeg", v, onChangePngToJpeg(settings, v))

SetPngToWebp ==
    \E v \in BOOLEAN : Edit("pngToWebp", v, onChangePngToWebp(settings, v))

SetQuality ==
    \E v \in QualityEdits : Edit("quality", v, [settings EXCEPT !.quality = v])

SetDisableRenameNotice ==
    \E v \in BOOLEAN :
        Edit("disableRenameNotice", v,
             [settings EXCEPT !.disableRenameNotice = v])

\* loadSettings, when the plugin is loaded again
LoadSettings ==
    /\ settings' = loadSettingsFrom(data)
    /\ call' = [op |-> "loadSettings"]
    /\ UNCHANGED <<data, ret>>
    /\ UNCHANGED proc

InitSettings ==
    /\ data = NoData
    /\ settings = loadSettingsFrom(data)
    /\ call = NoCall
    /\ ret = NoRet
    /\ ProcIdle

NextSettings ==
    \/ SetImageNamePattern
    \/ SetDupNumberAtStart
    \/ SetDupNumberDelimiter
    \/ SetDupNumberAlways
    \/ SetAutoRename
    \/ SetHandleAllAttachments
    \/ SetExcludeExtensionPattern
    \/ SetPngToJpeg
    \/ SetPngToWebp
    \/ SetQuality
    \/ SetDisableRenameNotice
    \/ LoadSettings

SpecSettings == InitSettings /\ [][NextSettings]_vars

\* Whether a typed delimiter is empty or holds nothing valid
NothingValid(value) ==
    \A i \in DOMAIN value : ~FilenameAllowed(value[i]) \/ IsWhitespace(value[i])

\* C6: the stored delimiter is never empty, and an empty or entirely invalid
\* delimiter typed by the user is stored as '-'.
C6_DelimiterNeverEmpty ==
    /\ settings.dupNumberDelimiter # <<>>
    /\ (call.op = "dupNumberDelimiter" /\ NothingValid(call.value))
         => settings.dupNumberDelimiter = <<"-">>

C6_Witness ==
    /\ call.op = "dupNumberDelimiter"
    /\ call.value # <<>>
    /\ NothingValid(call.value)
    /\ call.before.dupNumberDelimiter # <<"-">>
    /\ settings.dupNumberDelimiter = <<"-">>

\* C8: pngToJpeg and pngToWebp are never both set.
C8_ConversionsExclusive == ~(settings.pngToJpeg /\ settings.pngToWebp)

C8_Witness ==
    /\ call.op = "pngToJpeg"
    /\ call.value
    /\ call.before.pngToWebp
    /\ settings.pngToJpeg
    /\ ~settings.pngToWebp

----------------------------------------------------------------------------
(* The helpers of the file-creation handler and of the rename process *)

PASTED_IMAGE_PREFIX ==
    <<"P","a","s","t","e","d"," ","i","m","a","g","e"," ">>

isPastedImage(file) == StartsWith(file.name, PASTED_IMAGE_PREFIX)

isMarkdownFile(file) == file.extension = <<"m","d">>

getActualExtension(extension, st) ==
    LET ext == toLowerCase(extension)
    IN  IF ext = <<"p","n","g">> /\ st.pngToWebp THEN <<"w","e","b","p">>
        ELSE IF ext = <<"p","n","g">> /\ st.pngToJpeg THEN <<"j","p","e","g">>
        ELSE ext

\* The alternatives of a pattern, split at '|'
RECURSIVE Alternatives(_)
Alternatives(pattern) ==
    LET bars == { i \in DOMAIN pattern : pattern[i] = "|" }
        first == CHOOSE i \in bars : \A j \in bars : i <= j
    IN  IF bars = {} THEN { pattern }
        ELSE { SubSeq(pattern, 1, first - 1) }
             \cup Alternatives(SliceFrom(pattern, first + 1))

\* Whether the characters of alt, each optional when followed by '?', match s
\* from position p on
RECURSIVE MatchesAt(_, _, _)
MatchesAt(alt, s, p) ==
    IF alt = <<>> THEN TRUE
    ELSE LET optional == Len(alt) >= 2 /\ alt[2] = "?"
             rest == SliceFrom(alt, IF optional THEN 3 ELSE 2)
         IN  \/ p <= Len(s) /\ s[p] = Head(alt) /\ MatchesAt(rest, s, p + 1)
             \/ optional /\ MatchesAt(rest, s, p)

\* new RegExp(pattern).test(s) for a pattern of literal characters, '?' and '|'
RegExpTest(pattern, s) ==
    \E alt \in Alternatives(pattern) :
        \E p \in 1..(Len(s) + 1) : MatchesAt(alt, s, p)

testExcludeExtension(file, st) ==
    IF st.excludeExtensionPattern = <<>> THEN FALSE
    ELSE RegExpTest(st.excludeExtensionPattern, file.extension)

\* isMeaningful && autoRename
autoConfirms(isMeaningful, autoRename) == isMeaningful /\ autoRename

\* generateNewName(file, activeFile), stem being what renderTemplate returned
\* for the pattern and the active document
generateNewName(file, stem, st) ==
    LET actualExtension == getActualExtension(file.extension, st)
        meaningful == isNameMeaningful(stem, st.dupNumberDelimiter)
    IN  [threw |-> meaningful.threw,
         stem |-> stem,
         newName |-> stem \o <<".">> \o actualExtension,
         isMeaningful |-> meaningful.value,
         extension |-> actualExtension]

\* renameFile up to its first await: the checks, the sanitizing and the name
\* handed to deduplicateNewName
renameFileBegin(file, inputNewName, st) ==
    LET sanitized == sanitizerFilename(inputNewName)
        extension == parseFileName(sanitized).extension
    IN  IF inputNewName = <<>> \/ sanitized = <<>>
        THEN [threw |-> TRUE, nameToDedup |-> <<>>]
        ELSE [threw |-> FALSE,
              nameToDedup |->
                 IF extension # <<>> THEN sanitized
                 ELSE sanitized \o <<".">> \o getActualExtension(file.extension, st)]

\* A variant of the conversion test that looks at the extension only
conversionWantedForPng(file, st) ==
    toLowerCase(file.extension) = <<"p","n","g">>

\* Whether convertImageIfNeeded goes on to read the file
conversionWanted(file, st) ==
    toLowerCase(file.extension) = <<"p","n","g">> /\ (st.pngToJpeg \/ st.pngToWebp)

\* settings.pngToWebp ? 'webp' : 'jpeg'
conversionFormat(st) == IF st.pngToWebp THEN "webp" ELSE "jpeg"

----------------------------------------------------------------------------
(* The rename process: the vault 'create' handler, startRenameProcess, the   *)
(* rename dialog and renameFile with its host calls.  vault holds the files  *)
(* of one directory, each with the name it was created under (id), its       *)
(* current name and the format of its content; ops holds, for each created  *)
(* file, the startRenameProcess call made for it, if any; modals is          *)
(* plugin.modals; notices are the Notice objects shown.                      *)

ShotPng == <<"s","h","o","t",".","p","n","g">>

\* The files the host creates, each once
CreatedNames == { PastedImagePng, ShotPng }

\* The file the directory holds from the start
ExistingNames == { FooPng }

\* What renderTemplate returns for the pattern and the active document
RenderedStems == { StemFoo, <<"-">> }

\* What the user types into the 'New name' field
ModalInputs == { <<"b","a","r">>, <<>> }

\* Delimiters typed into the settings tab while files are being created
ProcessDelimiters == { <<"-">>, <<"e","-","p">>, <<"p","-","e">> }

VaultFile(name) ==
    [id |-> name, name |-> name, content |-> "original"]

\* The TFile of the file created as id, under its current name
FileOf(id) ==
    TFile(Dir, (CHOOSE f \in vault : f.id = id).name)

\* A variant of the listing that also holds the names that renames in flight
\* have fixed
VaultNamesAndPending ==
    { f.name : f \in vault }
    \cup { ops[n].newName : n \in { j \in DOMAIN ops : ops[j].pc \in {"read", "convert", "write", "rename"} } }

VaultNames == { f.name : f \in vault }

\* adapter.list(dir): the paths of the files of the directory
RECURSIVE ListedFiles(_)
ListedFiles(names) ==
    IF names = {} THEN <<>>
    ELSE LET n == CHOOSE x \in names : TRUE
         IN  <<pathJoin(Dir, n)>> \o ListedFiles(names \ {n})

\* this.modals.indexOf(modal), from 0, -1 when the dialog is not in the list
IndexOf(list, id) ==
    IF \E k \in DOMAIN list : list[k] = id
    THEN (CHOOSE k \in DOMAIN list : list[k] = id /\ \A j \in 1..(k - 1) : list[j] # id) - 1
    ELSE -1

\* list.splice(start, 1): a negative start counts from the end
Splice1(list, start) ==
    LET from == IF start < 0 THEN Len(list) + start ELSE start
    IN  IF list = <<>> THEN list
        ELSE SubSeq(list, 1, from) \o SubSeq(list, from + 2, Len(list))

\* The record of a startRenameProcess(file, autoRename) call that has just begun,
\* and with pc "none" the record of a file no call was made for
NewOp(id, autoRename, pc) ==
    [file |-> id, autoRename |-> autoRename, pc |-> pc, route |-> "none",
     stem |-> <<>>, delimiter |-> <<>>, generated |-> FALSE, isMeaningful |-> FALSE,
     dialog |-> "none", modalStem |-> <<>>, modalExt |-> <<>>,
     nameToDedup |-> <<>>, newName |-> <<>>, format |-> "none", calls |-> {}]

\* renameFile(file, inputNewName, sourcePath, true) up to its first await, the
\* listing of the directory
renameFileCalled(op, file, inputNewName, st) ==
    LET begin == renameFileBegin(file, inputNewName, st)
    IN  IF begin.threw THEN [op EXCEPT !.pc = "threw"]
        ELSE [op EXCEPT !.pc = "list", !.nameToDedup = begin.nameToDedup,
                        !.calls = @ \cup {"list"}]

\* openRenameModal(file, stem, sourcePath): the dialog and what its onOpen sets up
openRenameModal(op, file, stem, st) ==
    [op EXCEPT !.pc = "modal", !.route = "modal", !.dialog = "open",
               !.modalStem = stem,
               !.modalExt = getActualExtension(file.extension, st)]

\* startRenameProcess(file, autoRename) up to its first await or to its return;
\* active is whether a markdown view is active
startRenameProcess(op, file, active, stem, st) ==
    IF ~active THEN [op EXCEPT !.pc = "noActive"]
    ELSE LET gen == generateNewName(file, stem, st)
             seen == [op EXCEPT !.stem = stem, !.delimiter = st.dupNumberDelimiter]
         IN  IF gen.threw THEN [seen EXCEPT !.pc = "failed"]
             ELSE LET named == [seen EXCEPT !.generated = TRUE,
                                            !.isMeaningful = gen.isMeaningful]
                  IN  IF autoConfirms(gen.isMeaningful, op.autoRename)
                      THEN LET begun == renameFileCalled([named EXCEPT !.route = "auto"],
                                                         file, gen.newName, st)
                           IN  IF begun.pc = "threw"
                               THEN [begun EXCEPT !.pc = "failed"]
                               ELSE begun
                      ELSE openRenameModal(named, file,
                                           IF gen.isMeaningful THEN stem ELSE <<>>, st)

\* The Notice a startRenameProcess call shows before its first await
StartNotices(op) ==
    IF op.pc = "noActive" THEN { <<op.file, "noActiveFile">> }
    ELSE IF op.pc = "failed" THEN { <<op.file, "failedToRename">> }
    ELSE {}

\* A variant of the filter that does not look at the exclude pattern
createHandlerStartsAllAttachments(file, recent, st) ==
    IF ~recent THEN FALSE
    ELSE IF isMarkdownFile(file) THEN FALSE
    ELSE IF isPastedImage(file) THEN TRUE
    ELSE st.handleAllAttachments

\* Whether the 'create' handler calls startRenameProcess for the file; recent is
\* whether the file was created within the last second
createHandlerStarts(file, recent, st) ==
    IF ~recent THEN FALSE
    ELSE IF isMarkdownFile(file) THEN FALSE
    ELSE IF isPastedImage(file) THEN TRUE
    ELSE IF st.handleAllAttachments
         THEN IF testExcludeExtension(file, st) THEN FALSE ELSE TRUE
         ELSE FALSE

\* The host creates one of the files named and fires 'create'
CreateFrom(names) ==
    \E name \in names \ created, recent \in BOOLEAN, active \in BOOLEAN,
       stem \in RenderedStems :
        LET file == TFile(Dir, name)
            op == startRenameProcess(NewOp(name, settings.autoRename, "start"), file,
                                     active, stem, settings)
        IN  /\ created' = created \cup {name}
            /\ vault' = vault \cup { VaultFile(name) }
            /\ IF createHandlerStarts(file, recent, settings)
               THEN /\ ops' = [ops EXCEPT ![name] = op]
                    /\ modals' = IF op.pc = "modal" THEN Append(modals, name) ELSE modals
                    /\ notices' = notices \cup StartNotices(op)
               ELSE UNCHANGED <<ops, modals, notices>>
            /\ UNCHANGED <<settings, data, call, ret>>

CreateFile == CreateFrom(CreatedNames)

\* The user edits the 'New name' field of an open dialog
ModalInput ==
    \E i \in DOMAIN ops, value \in ModalInputs :
        /\ ops[i].pc = "modal"
        /\ ops' = [ops EXCEPT ![i].modalStem = sanitizerFilename(value)]
        /\ UNCHANGED <<settings, data, call, ret, vault, created, modals, notices>>

\* Enter or the Rename button with a name in the field: doRename(), then close()
ModalConfirm ==
    \E i \in DOMAIN ops :
        /\ ops[i].pc = "modal"
        /\ ops[i].modalStem # <<>>
        /\ LET op == ops[i]
               begun == renameFileCalled([op EXCEPT !.dialog = "confirmed",
                                                    !.modalStem = <<>>,
                                                    !.modalExt = <<>>],
                                         FileOf(op.file),
                                         op.modalStem \o <<".">> \o op.modalExt,
                                         settings)
           IN  ops' = [ops EXCEPT ![i] = IF begun.pc = "threw"
                                         THEN [begun EXCEPT !.pc = "rejected"]
                                         ELSE begun]
        /\ modals' = Splice1(modals, IndexOf(modals, ops[i].file))
        /\ UNCHANGED <<settings, data, call, ret, vault, created, notices>>

\* A variant of the Cancel button that submits the name before closing
ModalCancelRenames ==
    \E i \in DOMAIN ops :
        /\ ops[i].pc = "modal"
        /\ ops' = [ops EXCEPT ![i] =
                     renameFileCalled([ops[i] EXCEPT !.dialog = "cancelled"],
                                      FileOf(ops[i].file),
                                      <<"x">> \o <<".">> \o ops[i].modalExt, settings)]
        /\ modals' = Splice1(modals, IndexOf(modals, ops[i].file))
        /\ UNCHANGED <<settings, data, call, ret, vault, created, notices>>

\* The Cancel button, Escape or a click outside the dialog: close()
ModalCancel ==
    \E i \in DOMAIN ops :
        /\ ops[i].pc = "modal"
        /\ ops' = [ops EXCEPT ![i].pc = "cancelled", ![i].dialog = "cancelled",
                                  ![i].modalStem = <<>>, ![i].modalExt = <<>>]
        /\ modals' = Splice1(modals, IndexOf(modals, ops[i].file))
        /\ UNCHANGED <<settings, data, call, ret, vault, created, notices>>

\* renameFile from linkText on: generateMarkdownLink, then the host rename call
hostRenameCalled(op) ==
    [op EXCEPT !.pc = "rename", !.calls = @ \cup {"renameFile"}]

\* The catch of convertImageIfNeeded: a Notice, and renameFile goes on
ConversionFailed(i) ==
    /\ ops' = [ops EXCEPT ![i] = hostRenameCalled(ops[i])]
    /\ notices' = notices \cup { <<ops[i].file, "conversionFailed">> }
    /\ UNCHANGED vault

\* adapter.list(dir) returns: deduplicateNewName fixes the name, and
\* convertImageIfNeeded either returns at once or reads the file
ListDone ==
    \E i \in DOMAIN ops :
        /\ ops[i].pc = "list"
        /\ LET op == ops[i]
               file == FileOf(op.file)
               deduped == deduplicateNewName(op.nameToDedup, file,
                                             ListedFiles(VaultNames), settings)
               named == [op EXCEPT !.newName = deduped.name]
           IN  ops' = [ops EXCEPT ![i] =
                         IF conversionWanted(file, settings)
                         THEN [named EXCEPT !.pc = "read",
                                            !.calls = @ \cup {"readBinary"}]
                         ELSE hostRenameCalled(named)]
        /\ UNCHANGED <<settings, data, call, ret, vault, created, modals, notices>>

\* vault.readBinary(file) returns or fails
ReadDone ==
    \E i \in DOMAIN ops, ok \in BOOLEAN :
        /\ ops[i].pc = "read"
        /\ IF ok
           THEN /\ ops' = [ops EXCEPT ![i].pc = "convert",
                                      ![i].format = conversionFormat(settings),
                                      ![i].calls = @ \cup {"ConvertImage"}]
                /\ UNCHANGED <<vault, notices>>
           ELSE ConversionFailed(i)
        /\ UNCHANGED <<settings, data, call, ret, created, modals>>

\* ConvertImage(blob, quality, format) returns or fails
ConvertDone ==
    \E i \in DOMAIN ops, ok \in BOOLEAN :
        /\ ops[i].pc = "convert"
        /\ IF ok
           THEN /\ ops' = [ops EXCEPT ![i].pc = "write",
                                      ![i].calls = @ \cup {"modifyBinary"}]
                /\ UNCHANGED <<vault, notices>>
           ELSE ConversionFailed(i)
        /\ UNCHANGED <<settings, data, call, ret, created, modals>>

\* vault.modifyBinary(file, arrayBuffer) returns or fails
WriteDone ==
    \E i \in DOMAIN ops, ok \in BOOLEAN :
        /\ ops[i].pc = "write"
        /\ IF ok
           THEN /\ ops' = [ops EXCEPT ![i] = hostRenameCalled(ops[i])]
                /\ vault' = { IF f.id = ops[i].file
                              THEN [f EXCEPT !.content = ops[i].format] ELSE f :
                              f \in vault }
                /\ UNCHANGED notices
           ELSE ConversionFailed(i)
        /\ UNCHANGED <<settings, data, call, ret, created, modals>>

\* The last argument of renameFile: true from startRenameProcess and from the
\* dialog, false from batchRenameAllImages
replaceCurrentLine(op) == op.route # "batch"

\* fileManager.renameFile(file, newPath) returns, or fails as it does when the
\* path is taken; the error reaches the catch of startRenameProcess on the
\* automatic path and nobody from the dialog
RenameDone ==
    \E i \in DOMAIN ops, ok \in BOOLEAN :
        /\ ops[i].pc = "rename"
        /\ IF ok
           THEN /\ ops[i].newName \notin VaultNames
                /\ vault' = { IF f.id = ops[i].file
                              THEN [f EXCEPT !.name = ops[i].newName] ELSE f :
                              f \in vault }
                /\ ops' = [ops EXCEPT ![i].pc = "done",
                                      ![i].calls = IF replaceCurrentLine(ops[i])
                                                   THEN @ \cup {"updateLinkInEditor"}
                                                   ELSE @]
                /\ notices' = IF settings.disableRenameNotice THEN notices
                              ELSE notices \cup { <<ops[i].file, "renamed">> }
           ELSE /\ UNCHANGED vault
                /\ IF ops[i].route = "auto"
                   THEN /\ ops' = [ops EXCEPT ![i].pc = "failed"]
                        /\ notices' = notices \cup { <<ops[i].file, "failedToRename">> }
                   ELSE /\ ops' = [ops EXCEPT ![i].pc = "rejected"]
                        /\ UNCHANGED notices
        /\ UNCHANGED <<settings, data, call, ret, created, modals>>

\* The conversion toggles of the settings tab are used while files are created
\* and renamed
Configure ==
    \E next \in { onChangePngToJpeg(settings, ~settings.pngToJpeg),
                  onChangePngToWebp(settings, ~settings.pngToWebp) } :
        /\ settings' = next
        /\ data' = saveSettings(next)
        /\ UNCHANGED <<call, ret>>
        /\ UNCHANGED proc

\* What an earlier session saved from the settings tab
StoredSettings ==
    { [DEFAULT_SETTINGS EXCEPT !.autoRename = a,
                               !.handleAllAttachments = h,
                               !.dupNumberDelimiter = sanitizerDelimiter(d)] :
        a \in BOOLEAN, h \in BOOLEAN, d \in ProcessDelimiters }
    \ { DEFAULT_SETTINGS }

\* onload has run: the settings are loaded, the directory holds its files
Init ==
    /\ data \in {NoData} \cup { saveSettings(st) : st \in StoredSettings }
    /\ settings = loadSettingsFrom(data)
    /\ call = NoCall
    /\ ret = NoRet
    /\ vault = { VaultFile(n) : n \in ExistingNames }
    /\ created = {}
    /\ ops = [n \in CreatedNames |-> NewOp(n, FALSE, "none")]
    /\ modals = <<>>
    /\ notices = {}

Next ==
    \/ CreateFile
    \/ ModalInput
    \/ ModalConfirm
    \/ ModalCancel
    \/ ListDone
    \/ ReadDone
    \/ ConvertDone
    \/ WriteDone
    \/ RenameDone
    \/ Configure

Spec == Init /\ [][Next]_vars

----------------------------------------------------------------------------
(* startRenameProcess: automatic confirmation or dialog *)

\* The startRenameProcess calls that found an active document
Started == { n \in CreatedNames : ops[n].pc \notin {"none", "noActive"} }

\* The rule of the branch for one call, the stem judged as the specification
\* defines "meaningful": something is left once delimiter and whitespace are
\* stripped
AutoConfirmRule(op) ==
    /\ (HasOtherCharacter(op.stem, op.delimiter) /\ op.autoRename)
         => op.route = "auto"
    /\ op.route = "auto"
         => /\ ~OnlyDelimiterAndWhitespace(op.stem, op.delimiter)
            /\ op.autoRename
            /\ op.dialog = "none"
    /\ op.route # "auto" => op.dialog # "none"
    /\ op.calls # {} => (op.route = "auto" \/ op.dialog = "confirmed")

\* C9: once startRenameProcess has a stem, renameFile is called without a
\* dialog exactly when the stem is meaningful and auto-rename was enabled; in
\* every other case the dialog is opened, and renameFile is not called before
\* the user has confirmed.
C9_AutoConfirmIffMeaningfulAndEnabled ==
    \A n \in Started : AutoConfirmRule(ops[n])

\* C9, for the calls made under the delimiter '-', which a character class
\* takes literally: there the rule holds.
C9_RuleUnderLiteralDelimiter ==
    \A n \in Started : ops[n].delimiter = <<"-">> => AutoConfirmRule(ops[n])

\* C9: a call under '-' went each way: one file was confirmed automatically,
\* the other got a dialog for a stem that is not meaningful.
C9_BothRoutesTaken ==
    /\ \E n \in Started : ops[n].delimiter = <<"-">> /\ ops[n].route = "auto"
    /\ \E n \in Started : /\ ops[n].delimiter = <<"-">>
                          /\ ops[n].route = "modal"
                          /\ ~ops[n].isMeaningful

----------------------------------------------------------------------------
(* Dismissing the dialog *)

\* The host calls that change the file system
Mutations == {"modifyBinary", "renameFile"}

\* C10: a dialog dismissed without confirming leaves its file as it was
\* created and issues no host call, and no modifyBinary and no host rename is
\* issued for a file before its name was committed, automatically or by the
\* user's confirmation.
C10_NoMutationBeforeCommit ==
    \A n \in CreatedNames :
        /\ ops[n].calls \cap Mutations # {}
             => (ops[n].route = "auto" \/ ops[n].dialog = "confirmed")
        /\ ops[n].dialog \in {"open", "cancelled"}
             => /\ ops[n].calls = {}
                /\ VaultFile(n) \in vault
        /\ ops[n].dialog = "cancelled" => ops[n].pc = "cancelled"

\* C10: one dialog was dismissed while the rename confirmed in the other
\* dialog converted and renamed its file.
C10_Witness ==
    \E n \in CreatedNames, m \in CreatedNames :
        /\ ops[n].dialog = "cancelled"
        /\ ops[m].dialog = "confirmed"
        /\ ops[m].pc = "done"
        /\ "modifyBinary" \in ops[m].calls

----------------------------------------------------------------------------
(* Failures of a rename started by 'create' *)

\* The calls that ended in a failure: no active document, an error caught by
\* startRenameProcess, an error thrown by the renameFile the dialog started
Failures == { n \in CreatedNames : ops[n].pc \in {"noActive", "failed", "rejected"} }

\* The notices that report a failure of the call made for n
FailureNotices(n) == { <<n, "noActiveFile">>, <<n, "failedToRename">> }

\* C11: every failure of a rename started by a file-creation event is shown
\* in a notice, after an automatic confirmation and after a confirmation in
\* the dialog alike.
C11_EveryFailureNotified ==
    \A n \in Failures : notices \cap FailureNotices(n) # {}

\* C11: the host rename failed for a name confirmed in the dialog, and nothing
\* was shown for it.
C11_SilentFailure ==
    \E n \in CreatedNames :
        /\ ops[n].pc = "rejected"
        /\ ops[n].dialog = "confirmed"
        /\ "renameFile" \in ops[n].calls
        /\ notices \cap FailureNotices(n) = {}

\* C11, on the automatic path only: there every failure is shown.
C11_AutomaticFailuresNotified ==
    \A n \in Failures : ops[n].route # "modal" => notices \cap FailureNotices(n) # {}

----------------------------------------------------------------------------
(* The filter of the 'create' handler, over attachments of several kinds and *)
(* settings with and without an exclude pattern                              *)

NoteMd == <<"n",".","m","d">>

DocPdf == <<"d","o","c",".","p","d","f">>

AttachmentNames == { PastedImagePng, ShotPng, NoteMd, DocPdf }

\* Exclude patterns saved from the settings tab; the second matches png and zip
ExcludePatterns == { <<>>, <<"p","n","?","g","|","z","i","p">> }

CreateAttachment == CreateFrom(AttachmentNames)

InitCreate ==
    /\ data \in { saveSettings([DEFAULT_SETTINGS EXCEPT
                                   !.autoRename = a,
                                   !.handleAllAttachments = h,
                                   !.excludeExtensionPattern = e]) :
                  a \in BOOLEAN, h \in BOOLEAN, e \in ExcludePatterns }
    /\ settings = loadSettingsFrom(data)
    /\ call = NoCall
    /\ ret = NoRet
    /\ vault = { VaultFile(n) : n \in ExistingNames }
    /\ created = {}
    /\ ops = [n \in AttachmentNames |-> NewOp(n, FALSE, "none")]
    /\ modals = <<>>
    /\ notices = {}

NextCreate == CreateAttachment

SpecCreate == InitCreate /\ [][NextCreate]_vars

\* The created files startRenameProcess was called for
Entered == { n \in DOMAIN ops : ops[n].pc # "none" }

\* Whether a non-empty exclude pattern matches the extension of the file
Excluded(n) ==
    /\ settings.excludeExtensionPattern # <<>>
    /\ RegExpTest(settings.excludeExtensionPattern, TFile(Dir, n).extension)

\* C12, as stated: a rename process starts only for a file that is not
\* markdown, is a pasted image or comes under 'handle all attachments', and
\* whose extension the exclude pattern does not match.
C12_NoExcludedFileEnters ==
    \A n \in Entered :
        /\ TFile(Dir, n).extension # <<"m","d">>
        /\ StartsWith(n, PASTED_IMAGE_PREFIX) \/ settings.handleAllAttachments
        /\ ~Excluded(n)

\* C12, amended: a rename process starts only for a file that is not markdown
\* and is either a pasted image, whatever the exclude pattern, or comes under
\* 'handle all attachments' with an extension the exclude pattern does not
\* match.
C12_ExcludeAppliesToOtherAttachments ==
    \A n \in Entered :
        /\ TFile(Dir, n).extension # <<"m","d">>
        /\ \/ StartsWith(n, PASTED_IMAGE_PREFIX)
           \/ settings.handleAllAttachments /\ ~Excluded(n)

\* C12: under 'handle all attachments' and a pattern that matches png, the
\* pasted image entered the process, shot.png and the note were created and
\* did not, and the pdf entered.
C12_Witness ==
    /\ settings.handleAllAttachments
    /\ Excluded(PastedImagePng)
    /\ PastedImagePng \in Entered
    /\ DocPdf \in Entered
    /\ {ShotPng, NoteMd} \subseteq created \ Entered

----------------------------------------------------------------------------
(* The order of the steps of renameFile *)

\* The step issues host call c for the file created as n
Issues(n, c) == c \in ops'[n].calls /\ c \notin ops[n].calls

ConversionCalls == {"readBinary", "ConvertImage", "modifyBinary"}

\* The vault's record of the file created as n
Stored(n) == { f \in vault : f.id = n }

\* What one step may do to the call made for n
StepInOrder(n) ==
    \* the name deduplication fixed is not changed afterwards
    /\ ops[n].newName # <<>> => ops'[n].newName = ops[n].newName
    \* nothing is issued or changed before the listing returned and fixed it
    /\ (\E c \in ConversionCalls \cup {"renameFile", "updateLinkInEditor"} : Issues(n, c))
         => /\ "list" \in ops[n].calls
            /\ ops'[n].newName # <<>>
    /\ Stored(n) # {} /\ Stored(n)' # Stored(n) => ops[n].newName # <<>>
    \* conversion: for a PNG with a target configured, before the host rename
    /\ Issues(n, "readBinary")
         => /\ TFile(Dir, n).extension = <<"p","n","g">>
            /\ settings.pngToJpeg \/ settings.pngToWebp
            /\ ops[n].pc = "list"
    /\ (\E c \in ConversionCalls : Issues(n, c)) => "renameFile" \notin ops'[n].calls
    /\ (\E c \in ConversionCalls : c \in ops[n].calls) => "readBinary" \in ops[n].calls
    /\ (\E f \in Stored(n), g \in Stored(n)' : f.content # g.content)
         => ops[n].pc = "write"
    \* the host rename: once no conversion step is pending
    /\ Issues(n, "renameFile") => ops'[n].pc = "rename"
    /\ (\E f \in Stored(n), g \in Stored(n)' : f.name # g.name)
         => ops[n].pc = "rename"
    \* the link update: after the host rename returned
    /\ Issues(n, "updateLinkInEditor")
         => /\ ops[n].pc = "rename"
            /\ ops'[n].pc = "done"
            /\ \E g \in Stored(n)' : g.name = ops[n].newName

\* C13: in every renameFile the listing returns and fixes the final name before
\* any other host call is issued or anything changes; the conversion calls are
\* issued only for a PNG source with a conversion configured, after that and
\* before the host rename is issued; the link is updated only by the step in
\* which the host rename returned.
C13_StepsInOrder ==
    [][\A n \in CreatedNames : StepInOrder(n)]_vars

\* C13: a rename went through every step: listing, read, conversion, write,
\* host rename, link update.
C13_Witness ==
    \E n \in CreatedNames :
        /\ ops[n].pc = "done"
        /\ ops[n].calls = {"list", "readBinary", "ConvertImage", "modifyBinary",
                           "renameFile", "updateLinkInEditor"}

----------------------------------------------------------------------------
(* batchRenameAllImages: call holds the frame of the one call, ops the       *)
(* renameFile it awaits, ret the summary Notice shown in its finally block   *)

MaxEmbeds == 3

GonePng == <<"g","o","n","e",".","p","n","g">>

\* The files of the directory when the batch starts
BatchFiles == { FooPng, PastedImagePng, ShotPng, DocPdf }

\* The links embedded in the active document
EmbedLinks == { PastedImagePng, ShotPng, DocPdf, GonePng }

\* extPatternRegex = /jpe?g|png|gif|tiff|webp/i
extPatternRegexTest(extension) ==
    RegExpTest(<<"j","p","e","?","g","|","p","n","g","|","g","i","f","|",
                 "t","i","f","f","|","w","e","b","p">>, toLowerCase(extension))

\* metadataCache.getFirstLinkpathDest(link, path): the files the link names now
LinkDest(link) == { f \in vault : f.name = link }

\* A variant of the loop body that does not await renameFile and goes on to
\* the next embed, counting the rename as a success
RECURSIVE batchLoopNoAwait(_, _, _)
batchLoopNoAwait(frame, started, st) ==
    IF frame.index = Len(frame.embeds)
    THEN [frame |-> [frame EXCEPT !.phase = "ended"], started |-> started]
    ELSE LET link == frame.embeds[frame.index + 1]
             next == [frame EXCEPT !.index = @ + 1]
             dest == LinkDest(link)
             id == (CHOOSE f \in dest : TRUE).id
         IN  IF dest = {} \/ ~extPatternRegexTest(TFile(Dir, link).extension)
             THEN batchLoopNoAwait(next, started, st)
             ELSE batchLoopNoAwait([next EXCEPT !.successCount = @ + 1],
                                   started \cup {id}, st)

\* The loop of batchRenameAllImages from the embed at index on, up to the
\* renameFile it awaits, to the end of the embeds or to an error thrown out of
\* the loop; started holds the file whose renameFile was called
RECURSIVE batchLoop(_, _, _)
batchLoop(frame, started, st) ==
    IF frame.index = Len(frame.embeds)
    THEN [frame |-> [frame EXCEPT !.phase = "ended"], started |-> started]
    ELSE LET link == frame.embeds[frame.index + 1]
             next == [frame EXCEPT !.index = @ + 1]
             failed == [next EXCEPT !.failCount = @ + 1]
             dest == LinkDest(link)
             file == TFile(Dir, link)
             gen == generateNewName(file, frame.stem, st)
         IN  IF dest = {} THEN batchLoop(failed, started, st)
             ELSE IF ~extPatternRegexTest(file.extension)
             THEN batchLoop(next, started, st)
             ELSE IF gen.threw
             THEN [frame |-> [next EXCEPT !.phase = "threw"], started |-> started]
             ELSE IF ~gen.isMeaningful THEN batchLoop(failed, started, st)
             ELSE IF renameFileBegin(file, gen.newName, st).threw
             THEN batchLoop(failed, started, st)
             ELSE [frame |-> [next EXCEPT !.phase = "awaiting"],
                   started |-> started \cup { (CHOOSE f \in dest : TRUE).id }]

\* The files of the batch that can be renamed
BatchImages == { n \in BatchFiles \cap EmbedLinks : extPatternRegexTest(TFile(Dir, n).extension) }

\* The finally block: the summary Notice
BatchSummary(frame) ==
    [done |-> TRUE,
     value |-> IF frame.successCount > 0 \/ frame.failCount > 0
               THEN [notice |-> "Batch rename complete",
                     success |-> frame.successCount, failed |-> frame.failCount]
               ELSE [notice |-> "No images found to rename",
                     success |-> 0, failed |-> 0]]

\* The loop runs on from frame: the renameFile it calls starts, or the loop is
\* left and the summary is shown
BatchRun(frame) ==
    LET run == batchLoop(frame, {}, settings)
    IN  /\ call' = [run.frame EXCEPT !.current =
                      IF run.frame.phase = "awaiting"
                      THEN CHOOSE n \in run.started : TRUE ELSE <<>>]
        /\ ops' = [n \in DOMAIN ops |->
                     IF n \in run.started
                     THEN renameFileCalled(
                            [NewOp(n, FALSE, "start") EXCEPT !.route = "batch"],
                            FileOf(n),
                            generateNewName(FileOf(n), frame.stem, settings).newName,
                            settings)
                     ELSE ops[n]]
        /\ ret' = IF run.frame.phase \in {"ended", "threw"}
                  THEN BatchSummary(run.frame) ELSE ret

\* The command 'Batch rename all images instantly' is run
BatchStart ==
    /\ call.op = "batchRenameAllImages"
    /\ call.phase = "called"
    /\ IF ~call.active
       THEN /\ call' = [call EXCEPT !.phase = "returned"]
            /\ ret' = [done |-> TRUE,
                       value |-> [notice |-> "Error: No active file found",
                                  success |-> 0, failed |-> 0]]
            /\ UNCHANGED ops
       ELSE IF call.embeds = <<>>
       THEN /\ call' = [call EXCEPT !.phase = "returned"]
            /\ ret' = [done |-> TRUE,
                       value |-> [notice |-> "No embeds found in the current file",
                                  success |-> 0, failed |-> 0]]
            /\ UNCHANGED ops
       ELSE BatchRun([call EXCEPT !.phase = "loop"])
    /\ UNCHANGED <<settings, data, vault, created, modals, notices>>

\* The awaited renameFile has returned or thrown: it is counted and the loop
\* goes on
BatchResume ==
    /\ call.op = "batchRenameAllImages"
    /\ call.phase = "awaiting"
    /\ ops[call.current].pc \in {"done", "rejected"}
    /\ BatchRun(IF ops[call.current].pc = "done"
                THEN [call EXCEPT !.phase = "loop", !.successCount = @ + 1]
                ELSE [call EXCEPT !.phase = "loop", !.failCount = @ + 1])
    /\ UNCHANGED <<settings, data, vault, created, modals, notices>>

\* Delimiters saved before the batch is run
BatchDelimiters == { <<"-">>, <<"p","-","e">> }

InitBatch ==
    /\ data \in { saveSettings([DEFAULT_SETTINGS EXCEPT
                                   !.dupNumberDelimiter = sanitizerDelimiter(d),
                                   !.pngToWebp = w]) :
                  d \in BatchDelimiters, w \in BOOLEAN }
    /\ settings = loadSettingsFrom(data)
    /\ call \in { [op |-> "batchRenameAllImages", active |-> a, embeds |-> e,
                   stem |-> stem, index |-> 0, successCount |-> 0,
                   failCount |-> 0, phase |-> "called", current |-> <<>>] :
                  a \in BOOLEAN, e \in SeqsUpTo(EmbedLinks, MaxEmbeds),
                  stem \in RenderedStems }
    /\ ret = NoRet
    /\ vault = { VaultFile(n) : n \in BatchFiles }
    /\ created = {}
    /\ ops = [n \in BatchImages |-> NewOp(n, FALSE, "none")]
    /\ modals = <<>>
    /\ notices = {}

NextBatch ==
    \/ BatchStart
    \/ BatchResume
    \/ ListDone
    \/ ReadDone
    \/ ConvertDone
    \/ WriteDone
    \/ RenameDone

SpecBatch == InitBatch /\ [][NextBatch]_vars

\* The renameFile calls that are between their first await and their end
InFlight ==
    { n \in DOMAIN ops : ops[n].pc \in {"list", "read", "convert", "write", "rename"} }

\* The files a renameFile call has renamed
Renamed == { n \in DOMAIN ops : ops[n].pc = "done" }

\* C14: in a batch at most one renameFile is between its listing and its end,
\* and it is the one the loop awaits; the name its deduplication fixed is the
\* name of no other file of the directory, and no two files the batch renamed
\* got the same final name.
C14_OneRenameAtATime ==
    /\ Cardinality(InFlight) <= 1
    /\ \A n \in InFlight :
         /\ call.phase = "awaiting" /\ call.current = n
         /\ ops[n].newName # <<>>
              => ops[n].newName \notin { f.name : f \in { g \in vault : g.id # n } }
    /\ \A n \in Renamed, m \in Renamed : n # m => ops[n].newName # ops[m].newName
    /\ \A n \in Renamed : \E f \in vault : f.id = n /\ f.name = ops[n].newName

\* C14: the batch renamed two images next to foo.png, the second after the
\* first, to two numbered names.
C14_Witness ==
    /\ call.phase = "ended"
    /\ Renamed = { PastedImagePng, ShotPng }
    /\ { ops[n].newName : n \in Renamed } =
         { <<"f","o","o","-","1",".","p","n","g">>, <<"f","o","o","-","2",".","p","n","g">> }

----------------------------------------------------------------------------
(* Two renames started by two 'create' events *)

\* The renameFile calls whose name is fixed and whose host rename has not
\* returned
Pending == { n \in CreatedNames : ops[n].pc \in {"read", "convert", "write", "rename"} }

\* C15: nothing serialises the deduplication of two renames in one directory:
\* two renames in flight that asked for the same name have fixed the same
\* final name, each from its own listing.
C15_PendingRenamesCollide ==
    \A n \in Pending, m \in Pending :
        ops[n].nameToDedup = ops[m].nameToDedup => ops[n].newName = ops[m].newName

\* C15: two renames have both taken their listing and fixed the same final
\* name, and both have issued their host rename to it.
C15_Race ==
    \E n \in CreatedNames, m \in CreatedNames :
        /\ n # m
        /\ ops[n].pc = "rename"
        /\ ops[m].pc = "rename"
        /\ ops[n].newName = ops[m].newName
        /\ ops[n].newName = <<"f","o","o","-","1",".","p","n","g">>

----------------------------------------------------------------------------
(* The counts of batchRenameAllImages *)

\* The embeds that name a file extPatternRegex rejects
SkippedEmbeds ==
    { i \in DOMAIN call.embeds :
        /\ call.embeds[i] \in BatchFiles
        /\ ~extPatternRegexTest(TFile(Dir, call.embeds[i]).extension) }

\* The summary has been shown for a batch that entered its loop
LoopLeft == ret.done /\ call.phase \notin {"called", "returned"}

\* Every embed was taken and counted once, and the summary shows the counts
CountedOnce ==
    /\ call.phase = "ended"
    /\ call.index = Len(call.embeds)
    /\ call.successCount + call.failCount + Cardinality(SkippedEmbeds)
         = Len(call.embeds)
    /\ call.successCount = Cardinality(Renamed)
    /\ ret.value.success = call.successCount
    /\ ret.value.failed = call.failCount
    /\ InFlight = {}

\* C16: the batch never fails fast: when its summary is shown the loop has
\* taken every embed, each counted exactly once as success, failure or skipped
\* non-image, and the summary reports these counts.
C16_EveryEmbedCounted == LoopLeft => CountedOnce

\* C16, for the batches run under the delimiter '-', which a character class
\* takes literally: there every embed is counted.
C16_CountedUnderLiteralDelimiter ==
    LoopLeft /\ settings.dupNumberDelimiter = <<"-">> => CountedOnce

\* C16: a batch of three embeds ended with one rename, one failure and one
\* skipped file.
C16_MixedBatch ==
    /\ LoopLeft
    /\ Len(call.embeds) = 3
    /\ call.successCount = 1
    /\ call.failCount = 1
    /\ Cardinality(SkippedEmbeds) = 1

----------------------------------------------------------------------------
(* plugin.modals and onunload: dialogs are opened by 'create' events, closed *)
(* by the user, and the plugin is unloaded; call marks the unloaded plugin   *)
(* and ret holds what onunload left behind                                   *)

PastedImage2Png ==
    <<"P","a","s","t","e","d"," ","i","m","a","g","e"," ","2",".","p","n","g">>

PastedImage3Png ==
    <<"P","a","s","t","e","d"," ","i","m","a","g","e"," ","3",".","p","n","g">>

\* The images pasted while the plugin is loaded
DialogNames == { PastedImagePng, PastedImage2Png, PastedImage3Png }

\* modal.close() for the dialog of file n: onClose, and with it the splice
closeModal(state, n) ==
    [modals |-> Splice1(state.modals, IndexOf(state.modals, n)),
     closed |-> state.closed \cup {n}]

\* this.modals.map(modal => modal.close()) from index k on: map visits the
\* indices below the length the list had at the start, and skips an index the
\* list no longer has
RECURSIVE modalsMapClose(_, _, _)
modalsMapClose(state, k, len) ==
    IF k >= len THEN state
    ELSE IF k >= Len(state.modals) THEN modalsMapClose(state, k + 1, len)
    ELSE modalsMapClose(closeModal(state, state.modals[k + 1]), k + 1, len)

\* onunload()
onunload(list) == modalsMapClose([modals |-> list, closed |-> {}], 0, Len(list))

\* The host unloads the plugin
Unload ==
    /\ call = NoCall
    /\ LET left == onunload(modals)
       IN  /\ modals' = left.modals
           /\ ops' = [n \in DOMAIN ops |->
                        IF n \in left.closed
                        THEN [ops[n] EXCEPT !.pc = "cancelled", !.dialog = "cancelled",
                                            !.modalStem = <<>>, !.modalExt = <<>>]
                        ELSE ops[n]]
           /\ call' = [op |-> "onunload"]
           /\ ret' = [done |-> TRUE,
                      value |-> [modals |-> left.modals,
                                 open |-> { n \in DOMAIN ops : ops'[n].dialog = "open" }]]
    /\ UNCHANGED <<settings, data, vault, created, notices>>

\* A 'create' event reaches the handler while the plugin is loaded
CreateWhileLoaded ==
    /\ call = NoCall
    /\ CreateFrom(DialogNames)

InitModals ==
    /\ data \in { NoData, saveSettings([DEFAULT_SETTINGS EXCEPT !.autoRename = TRUE]) }
    /\ settings = loadSettingsFrom(data)
    /\ call = NoCall
    /\ ret = NoRet
    /\ vault = { VaultFile(n) : n \in ExistingNames }
    /\ created = {}
    /\ ops = [n \in DialogNames |-> NewOp(n, FALSE, "none")]
    /\ modals = <<>>
    /\ notices = {}

NextModals ==
    \/ CreateWhileLoaded
    \/ ModalInput
    \/ ModalConfirm
    \/ ModalCancel
    \/ Unload

SpecModals == InitModals /\ [][NextModals]_vars

\* The dialogs that are open
OpenDialogs == { n \in DOMAIN ops : ops[n].dialog = "open" }

\* plugin.modals holds the open dialogs, each once
ModalsAreOpenDialogs ==
    /\ Range(modals) = OpenDialogs
    /\ Len(modals) = Cardinality(OpenDialogs)

\* C17: plugin.modals holds exactly the dialogs that are open, and when
\* onunload returns every dialog has been closed and plugin.modals is empty,
\* however many dialogs were open.
C17_UnloadClosesEveryDialog ==
    /\ ModalsAreOpenDialogs
    /\ ret.done => ret.value.modals = <<>> /\ ret.value.open = {}

\* C17, without onunload: plugin.modals holds exactly the open dialogs.
C17_ModalsHoldOpenDialogs == ModalsAreOpenDialogs

\* C17: onunload ran with three dialogs open and returned with one of them
\* still open and still in plugin.modals.
C17_DialogLeftOpen ==
    /\ ret.done
    /\ Cardinality({ n \in DOMAIN ops : ops[n].dialog = "cancelled" }) = 2
    /\ Len(ret.value.modals) = 1
    /\ ret.value.open = Range(ret.value.modals)

----------------------------------------------------------------------------
(* A conversion that fails, and the format of a conversion that succeeds *)

\* The extension that names a conversion format
ExtensionOfFormat(format) ==
    IF format = "webp" THEN <<"w","e","b","p">>
    ELSE IF format = "jpeg" THEN <<"j","p","e","g">>
    ELSE <<>>

\* The content of the file created as n
ContentOf(n) == (CHOOSE f \in vault : f.id = n).content

\* What the claim says of the renameFile call made for n
ConversionRule(n) ==
    \* a failed conversion is followed by the host rename, the content as it was
    /\ <<n, "conversionFailed">> \in notices
         => /\ "renameFile" \in ops[n].calls
            /\ ContentOf(n) = "original"
    \* a conversion is run for a name that carries a conversion target
    /\ "readBinary" \in ops[n].calls
         => parseFileName(ops[n].newName).extension \in
              { <<"j","p","e","g">>, <<"w","e","b","p">> }
    \* the format of the conversion is the extension of the name
    /\ ops[n].format # "none"
         => ExtensionOfFormat(ops[n].format) = parseFileName(ops[n].newName).extension

\* C18: a conversion that fails shows a notice, leaves the content as it was
\* and is followed by the host rename to the deduplicated name; that name
\* carries the conversion target, and the format convertImageIfNeeded converts
\* to always agrees with it.
C18_ConversionAgreesWithName ==
    \A n \in DOMAIN ops : ConversionRule(n)

\* C18, the failure alone: a failed conversion shows its notice, leaves the
\* content as it was and is followed by the host rename.
C18_FailureDoesNotAbort ==
    \A n \in DOMAIN ops :
        <<n, "conversionFailed">> \in notices
          => /\ "renameFile" \in ops[n].calls
             /\ ContentOf(n) = "original"

\* C18, in a batch, where the settings stay as they are: the name carries the
\* conversion target and the format agrees with it.
C18_AgreesWhileSettingsStay ==
    \A n \in DOMAIN ops :
        /\ "readBinary" \in ops[n].calls
             => parseFileName(ops[n].newName).extension \in
                  { <<"j","p","e","g">>, <<"w","e","b","p">> }
        /\ ops[n].format # "none"
             => ExtensionOfFormat(ops[n].format) = parseFileName(ops[n].newName).extension

\* C18: a conversion failed and the file was renamed all the same, to a webp
\* name with its PNG content.
C18_RenamedAfterFailure ==
    \E n \in DOMAIN ops :
        /\ <<n, "conversionFailed">> \in notices
        /\ ops[n].pc = "done"
        /\ parseFileName(ops[n].newName).extension = <<"w","e","b","p">>
        /\ ContentOf(n) = "original"

====
